---------------------------- MODULE Spec2Model ----------------------------
(*
  A model of the tavsa lexicon server (src/main.rs): the word table, the
  request handlers tavsa_add, tavsa_serialize, tavsa_delete, and the pure
  function get_word_etymology.

  Strings are sequences of UTF-8 bytes, as Rust's String/&str are: str::find
  returns a byte index and &word[a..b] slices by byte index and panics when a
  bound is past the end or not on a character boundary. A byte is written as a
  one-character string; the two bytes of the one non-ASCII character of the
  model are "C3" and "A9". Option<T> is a sequence of length 0 (None) or 1
  (Some). A Rust panic (todo!(), a failed index or slice, unwrap on Err) is the
  outcome "panic": it unwinds the handler's task, no response is produced.
*)
EXTENDS Integers, Sequences, FiniteSets

\* ---------------------------------------------------------------- bounds
MaxWordLen == 4      \* characters of a word given to get_word_etymology
MaxId == 2           \* largest id the model lets the table hold
MaxTokens == 2       \* tokens of a bulk import's body

\* ------------------------------------------------------------ Rust strings
None == <<>>
Some(v) == <<v>>

\* A character of the model and its UTF-8 encoding.
CharBytes(c) == IF c = "e_acute" THEN <<"C3", "A9">> ELSE <<c>>

RECURSIVE Encode(_)
Encode(cs) == IF cs = <<>> THEN <<>> ELSE CharBytes(Head(cs)) \o Encode(Tail(cs))

\* A UTF-8 continuation byte (10xxxxxx).
IsContinuation(b) == b = "A9"

\* str::is_char_boundary, i a 0-based byte index.
IsCharBoundary(s, i) ==
    \/ i = 0
    \/ i = Len(s)
    \/ i > 0 /\ i < Len(s) /\ ~IsContinuation(s[i + 1])

\* The bytes s[a..b] (0-based, b excluded).
Bytes(s, a, b) == SubSeq(s, a + 1, b)

\* str::find(pat): the 0-based byte index of the first match, as an Option.
Find(s, pat) ==
    LET hits == {i \in 0..(Len(s) - Len(pat)) : Bytes(s, i, i + Len(pat)) = pat}
    IN  IF hits = {} THEN None
        ELSE Some(CHOOSE i \in hits : \A j \in hits : i <= j)

\* str::contains(pat)
Contains(s, pat) == Find(s, pat) /= None

\* Option::or
OptOr(a, b) == IF a /= None THEN a ELSE b

\* &s[a..=a+1]: Some(bytes), or None where Rust panics (end past the string,
\* or a bound inside a multi-byte character).
SliceTwo(s, a) ==
    IF a + 2 <= Len(s) /\ IsCharBoundary(s, a) /\ IsCharBoundary(s, a + 2)
    THEN Some(Bytes(s, a, a + 2)) ELSE None

\* ------------------------------------------------------ get_word_etymology
NoEtymology == [lexema |-> <<>>, subject |-> None, ci |-> None, modifiers |-> <<>>]

\* The marker of a morpheme slot: find(first).or(find(second)).
Marker(word, first, second) == OptOr(Find(word, <<first>>), Find(word, <<second>>))

\* The result of get_word_etymology: outcome "Some" (with value), "None", or
\* "panic".
VerbEtymology(word) ==
    LET rn == Find(word, <<"r", "n">>)
        sm == Marker(word, "t", "d")
        cm == Marker(word, "k", "g")
        subject == IF sm = None THEN Some(None) ELSE
                   IF SliceTwo(word, sm[1]) = None THEN None
                   ELSE Some(SliceTwo(word, sm[1]))
        ci == IF cm = None THEN Some(None) ELSE
              IF SliceTwo(word, cm[1]) = None THEN None
              ELSE Some(SliceTwo(word, cm[1]))
    IN  IF rn = None THEN [outcome |-> "None", value |-> NoEtymology]
        ELSE IF subject = None \/ ci = None
             THEN [outcome |-> "panic", value |-> NoEtymology]
             ELSE [outcome |-> "Some",
                   value |-> [lexema |-> Bytes(word, 0, rn[1]),
                              subject |-> subject[1],
                              ci |-> ci[1],
                              modifiers |-> <<>>]]

get_word_etymology(word, word_type) ==
    IF word_type = "verb" THEN VerbEtymology(word)
    ELSE [outcome |-> "panic", value |-> NoEtymology]

\* str::to_lowercase, on the letters of the model.
LowerByte(b) ==
    CASE b = "A" -> "a"
      [] b = "B" -> "b"
      [] b = "R" -> "r"
      [] b = "T" -> "t"
      [] OTHER -> b

to_lowercase(s) == [i \in 1..Len(s) |-> LowerByte(s[i])]

\* str::split(sep) collected into a Vec: the pieces between the separators,
\* empty pieces included; a string without the separator is one piece.
RECURSIVE Split(_, _)
Split(s, sep) ==
    LET at == Find(s, <<sep>>)
    IN  IF at = None THEN <<s>>
        ELSE <<Bytes(s, 0, at[1])>> \o Split(Bytes(s, at[1] + 1, Len(s)), sep)

IsWhitespace(b) == b \in {" ", "\n", "\t"}

\* str::split_whitespace collected into a Vec: the maximal runs of
\* non-whitespace bytes.
RECURSIVE split_whitespace(_)
split_whitespace(s) ==
    LET ws == {i \in 1..Len(s) : IsWhitespace(s[i])}
        first == CHOOSE i \in ws : \A j \in ws : i <= j
    IN  IF ws = {} THEN (IF s = <<>> THEN <<>> ELSE <<s>>)
        ELSE (IF first = 1 THEN <<>> ELSE <<SubSeq(s, 1, first - 1)>>)
             \o split_whitespace(SubSeq(s, first + 1, Len(s)))

\* i64::to_string
Digits == <<"0", "1", "2", "3", "4", "5", "6", "7", "8", "9">>

RECURSIVE to_string(_)
to_string(n) ==
    IF n < 10 THEN <<Digits[n + 1]>>
    ELSE to_string(n \div 10) \o <<Digits[(n % 10) + 1]>>

DigitValue(b) == (CHOOSE d \in 1..10 : Digits[d] = b) - 1

IsDigit(b) == \E d \in 1..10 : Digits[d] = b

\* The integer an INTEGER column's affinity makes of a text parameter: Some(n)
\* for a decimal numeral, None for a text that is no number.
RECURSIVE DecimalValue(_)
DecimalValue(s) ==
    IF s = <<>> THEN 0
    ELSE 10 * DecimalValue(SubSeq(s, 1, Len(s) - 1)) + DigitValue(s[Len(s)])

ParseId(s) ==
    IF s /= <<>> /\ \A i \in 1..Len(s) : IsDigit(s[i])
    THEN Some(DecimalValue(s)) ELSE None

\* ------------------------------------------------------------- the inputs
\* The bodies of bulk imports: up to MaxTokens tokens of a pool, separated by
\* a blank.
TokenPool ==
    { Encode(<<"B", "=", "a", "r", "n">>),     \* well-formed, upper case in it
      Encode(<<"c", "=", "d">>),               \* well-formed, no "rn"
      Encode(<<"b", "a">>),                    \* no "="
      Encode(<<"a", "=">>),                    \* empty word
      Encode(<<"a", "=", "r", "n", "t">>) }    \* marker "t" is the last byte

SmallTokenPool ==
    { Encode(<<"B", "=", "a", "r", "n">>),
      Encode(<<"c", "=", "d">>) }

RECURSIVE JoinTokens(_)
JoinTokens(ts) ==
    IF ts = <<>> THEN <<>>
    ELSE IF Len(ts) = 1 THEN ts[1]
    ELSE ts[1] \o <<" ">> \o JoinTokens(Tail(ts))

BodiesOf(pool) ==
    {JoinTokens(ts) : ts \in UNION {[1..k -> pool] : k \in 0..MaxTokens}}

Bodies == BodiesOf(TokenPool)
SmallBodies == BodiesOf(SmallTokenPool)

\* The number of tokens of each body.
TokenCount == [b \in Bodies |-> Len(split_whitespace(b))]

ImportTypes == {"verb", "noun"}

AddTypes == {"", "auto", "noun", "verb", "amuini", "adj"}
AddWords == {Encode(<<>>), Encode(<<"z", "i">>), Encode(<<"r", "n">>)}
AddDefinitions == {Encode(<<>>), Encode(<<"x">>)}

SmallAddTypes == {"", "verb"}

DeleteIds == {to_string(i) : i \in 1..(MaxId + 1)} \cup {Encode(<<"x">>)}

\* The words and types given to get_word_etymology on its own.
Alphabet == {"r", "n", "t", "d", "k", "g", "a", "e_acute"}
EtymologyWords ==
    {Encode(cs) : cs \in UNION {[1..k -> Alphabet] : k \in 0..MaxWordLen}}
EtymologyTypes == {"verb", "noun", "amuini", "adj"}

\* --------------------------------------------------------------- the state
\* The handlers run as tasks of the server, one per request: two of them, as
\* the interleavings in question are of two requests.
Requests == {"r1", "r2"}

VARIABLES
    store,        \* the rows of table tavsa: [id, type, word, definition]
    pc,           \* pc[p]: where the handler of request p is
    first_index,  \* tavsa_serialize's local first_index
    body,         \* tavsa_serialize's argument body
    word_type,    \* tavsa_serialize's argument q.word_type
    query,        \* tavsa_serialize's local query_string, once built
    response,     \* what the last step sent to its client, if anything
    used,         \* every id a row of the table has had (the store's sequence)
    etym          \* a call of get_word_etymology: its arguments and result

vars == <<store, pc, first_index, body, word_type, query, response, used, etym>>

WORD_TYPES == {"noun", "verb", "amuini"}

NoQuery == [keyword |-> "", tuples |-> <<>>]
NoResponse == [kind |-> "none", rows |-> <<>>]
Text(t) == [kind |-> t, rows |-> <<>>]
NoCall ==
    [state |-> "none", word |-> <<>>, word_type |-> "",
     result |-> [outcome |-> "None", value |-> NoEtymology]]

Ids(rows) == {r.id : r \in rows}
MaxOf(S) == CHOOSE m \in S : \A x \in S : x <= m

RequestsInit ==
    /\ pc = [p \in Requests |-> "idle"]
    /\ first_index = [p \in Requests |-> 0]
    /\ body = [p \in Requests |-> <<>>]
    /\ word_type = [p \in Requests |-> ""]
    /\ query = [p \in Requests |-> NoQuery]
    /\ response = NoResponse

Init ==
    /\ store = {}
    /\ used = {}
    /\ RequestsInit
    /\ etym = NoCall

\* ------------------------------------------------------------ table tavsa
\* "select id from tavsa order by id desc limit 1", fetch_one: Ok(row) is
\* row.id + 1, Err (no row) is 1.
FirstIndex(rows) == IF rows = {} THEN 1 ELSE MaxOf(Ids(rows)) + 1

\* The id the store gives a row inserted without one: the next after every
\* id it has assigned or been given (assigned monotonically, never reused).
FreshId(ever) == IF ever = {} THEN 1 ELSE MaxOf(ever) + 1

\* The rows in rowid order, as "SELECT * FROM tavsa" scans them.
RECURSIVE RowsInOrder(_)
RowsInOrder(rows) ==
    IF rows = {} THEN <<>>
    ELSE LET r == CHOOSE x \in rows : \A y \in rows : x.id <= y.id
         IN  <<r>> \o RowsInOrder(rows \ {r})

\* get_words: per row its word, its definition and its id in the delete form.
GetWords(rows) ==
    LET rs == RowsInOrder(rows)
    IN  [i \in 1..Len(rs) |-> <<rs[i].word, rs[i].definition, to_string(rs[i].id)>>]

Listing(rows) == [kind |-> "listing", rows |-> GetWords(rows)]

\* ---------------------------------------------------------------- tavsa_add
\* The checks with "auto" resolved to verb whatever the word is.
ValidateAutoAlways(wt, word, definition) ==
    IF wt = "" \/ word = <<>> \/ definition = <<>>
    THEN [ok |-> FALSE, type |-> wt, text |-> "Missing fields"]
    ELSE IF wt = "auto" THEN [ok |-> TRUE, type |-> "verb", text |-> ""]
    ELSE IF wt \notin WORD_TYPES
    THEN [ok |-> FALSE, type |-> wt, text |-> "Invalid word type"]
    ELSE [ok |-> TRUE, type |-> wt, text |-> ""]

\* The checks of tavsa_add before its INSERT.
Validate(wt, word, definition) ==
    IF wt = "" \/ word = <<>> \/ definition = <<>>
    THEN [ok |-> FALSE, type |-> wt, text |-> "Missing fields"]
    ELSE IF wt = "auto" /\ ~Contains(word, <<"r", "n">>)
    THEN [ok |-> FALSE, type |-> wt, text |-> "Invalid word type"]
    ELSE LET t == IF wt = "auto" THEN "verb" ELSE wt
         IN  IF t \notin WORD_TYPES
             THEN [ok |-> FALSE, type |-> t, text |-> "Invalid word type"]
             ELSE [ok |-> TRUE, type |-> t, text |-> ""]

tavsa_add(p, wt, word, definition) ==
    /\ pc[p] = "idle"
    /\ LET v == Validate(wt, word, definition)
       IN  IF v.ok
           THEN /\ FreshId(used) <= MaxId
                /\ store' = store \cup {[id |-> FreshId(used), type |-> v.type,
                                         word |-> word, definition |-> definition]}
                /\ used' = used \cup {FreshId(used)}
                /\ pc' = [pc EXCEPT ![p] = "add_ok"]
                /\ response' = NoResponse
           ELSE /\ response' = Text(v.text)
                /\ UNCHANGED <<store, used, pc>>
    /\ UNCHANGED <<first_index, body, word_type, query, etym>>

\* ------------------------------------------------------------- tavsa_delete
\* The statement with "id <= ?" in place of "id = ?".
DeleteRowsUpTo(rows, id) ==
    {r \in rows : ParseId(id) = None \/ ParseId(id)[1] < r.id}

\* "DELETE FROM tavsa WHERE id = ?" with the text id.
DeleteRows(rows, id) == {r \in rows : ParseId(id) /= Some(r.id)}

tavsa_delete(p, id) ==
    /\ pc[p] = "idle"
    /\ store' = DeleteRows(store, id)
    /\ pc' = [pc EXCEPT ![p] = "delete_ok"]
    /\ response' = NoResponse
    /\ UNCHANGED <<first_index, body, word_type, query, used, etym>>

\* The Ok arm of tavsa_add and tavsa_delete: get_words, after the statement.
get_words(p) ==
    /\ pc[p] \in {"add_ok", "delete_ok"}
    /\ response' = Listing(store)
    /\ pc' = [pc EXCEPT ![p] = "idle"]
    /\ UNCHANGED <<store, first_index, body, word_type, query, used, etym>>

\* ---------------------------------------------------------- tavsa_serialize
\* One token's TavsaWord: pair[1] panics on a token without "=", and so does
\* get_word_etymology where it panics.
TokenPanics(token, wt) ==
    LET pair == Split(token, "=")
    IN  \/ Len(pair) < 2
        \/ get_word_etymology(pair[2], wt).outcome = "panic"

TavsaWord(token, wt, id) ==
    LET pair == Split(token, "=")
    IN  [id |-> id, word |-> to_lowercase(pair[2]),
         definition |-> to_lowercase(pair[1]), type |-> wt]

\* The iterator tavsa_words, run by the fold.
TavsaWords(b, wt, first) ==
    LET words == split_whitespace(b)
    IN  IF \E i \in 1..Len(words) : TokenPanics(words[i], wt)
        THEN [outcome |-> "panic", words |-> <<>>]
        ELSE [outcome |-> "ok",
              words |-> [i \in 1..Len(words) |-> TavsaWord(words[i], wt, (i - 1) + first)]]

\* query_string: the fold, then pop() and ";". Without a tuple pop() takes the
\* "S" of VALUES. No text of the model holds an apostrophe, so the statement
\* is its keyword and the tuples it lists.
QueryString(words) ==
    [keyword |-> IF words = <<>> THEN "VALUE" ELSE "VALUES", tuples |-> words]

QueryRows(q) == {q.tuples[i] : i \in 1..Len(q.tuples)}

\* The statement does not parse.
StatementMalformed(q) == q.keyword /= "VALUES"

\* The statement gives a row an id the table holds: id is unique, the
\* statement fails and inserts nothing.
KeyConflict(rows, q) == Ids(QueryRows(q)) \cap Ids(rows) /= {}

\* execute(...) is Err.
ExecuteFails(rows, q) == StatementMalformed(q) \/ KeyConflict(rows, q)

\* The handler ends: its locals are dropped.
Finished(p, r) ==
    /\ response' = r
    /\ pc' = [pc EXCEPT ![p] = "idle"]
    /\ first_index' = [first_index EXCEPT ![p] = 0]
    /\ body' = [body EXCEPT ![p] = <<>>]
    /\ word_type' = [word_type EXCEPT ![p] = ""]
    /\ query' = [query EXCEPT ![p] = NoQuery]

\* The read made to wait while another import is between its read and its
\* insert.
SerializeFetchIsolated(p, b, wt) ==
    /\ pc[p] = "idle"
    /\ \A q \in Requests : pc[q] \notin {"fetched", "built"}
    /\ FirstIndex(store) + TokenCount[b] - 1 <= MaxId
    /\ first_index' = [first_index EXCEPT ![p] = FirstIndex(store)]
    /\ body' = [body EXCEPT ![p] = b]
    /\ word_type' = [word_type EXCEPT ![p] = wt]
    /\ pc' = [pc EXCEPT ![p] = "fetched"]
    /\ response' = NoResponse
    /\ UNCHANGED <<store, query, used, etym>>

\* The handler up to its first await: the largest id is read.
SerializeFetch(p, b, wt) ==
    /\ pc[p] = "idle"
    /\ FirstIndex(store) + TokenCount[b] - 1 <= MaxId
    /\ first_index' = [first_index EXCEPT ![p] = FirstIndex(store)]
    /\ body' = [body EXCEPT ![p] = b]
    /\ word_type' = [word_type EXCEPT ![p] = wt]
    /\ pc' = [pc EXCEPT ![p] = "fetched"]
    /\ response' = NoResponse
    /\ UNCHANGED <<store, query, used, etym>>

\* The statement is built: the iterator and the fold run here.
SerializeBuild(p) ==
    /\ pc[p] = "fetched"
    /\ LET tw == TavsaWords(body[p], word_type[p], first_index[p])
       IN  IF tw.outcome = "panic"
           THEN Finished(p, Text("panic"))
           ELSE /\ query' = [query EXCEPT ![p] = QueryString(tw.words)]
                /\ pc' = [pc EXCEPT ![p] = "built"]
                /\ response' = NoResponse
                /\ UNCHANGED <<first_index, body, word_type>>
    /\ UNCHANGED <<store, used, etym>>

\* execute(...).await.unwrap()
SerializeExecute(p) ==
    /\ pc[p] = "built"
    /\ IF ExecuteFails(store, query[p])
       THEN Finished(p, Text("panic")) /\ UNCHANGED <<store, used>>
       ELSE /\ Finished(p, Text("ok"))
            /\ store' = store \cup QueryRows(query[p])
            /\ used' = used \cup Ids(QueryRows(query[p]))
    /\ UNCHANGED etym

\* ------------------------------------------------------------ the server
\* Requests served one at a time, with the full inputs.
Only == "r1"

Add == \E wt \in AddTypes, w \in AddWords, d \in AddDefinitions :
           tavsa_add(Only, wt, w, d)
Delete == \E id \in DeleteIds : tavsa_delete(Only, id)
List == get_words(Only)
Fetch == \E b \in Bodies, wt \in ImportTypes :
             SerializeFetch(Only, b, wt)
Build == SerializeBuild(Only)
Execute == SerializeExecute(Only)

Next == Add \/ Delete \/ List \/ Fetch \/ Build \/ Execute

Spec == Init /\ [][Next]_vars

\* Requests in flight together, with small inputs.
AddC == \E p \in Requests, wt \in SmallAddTypes, w \in AddWords, d \in AddDefinitions :
            tavsa_add(p, wt, w, d)
DeleteC == \E p \in Requests, id \in DeleteIds : tavsa_delete(p, id)
ListC == \E p \in Requests : get_words(p)
FetchC == \E p \in Requests, b \in SmallBodies, wt \in ImportTypes :
              SerializeFetch(p, b, wt)
BuildC == \E p \in Requests : SerializeBuild(p)
ExecuteC == \E p \in Requests : SerializeExecute(p)

NextConcurrent == AddC \/ DeleteC \/ ListC \/ FetchC \/ BuildC \/ ExecuteC

SpecConcurrent == Init /\ [][NextConcurrent]_vars

\* ------------------------------------------- get_word_etymology on its own
InitEtymology ==
    /\ store = {}
    /\ used = {}
    /\ RequestsInit
    /\ etym \in {[state |-> "call", word |-> w, word_type |-> t, result |-> NoCall.result] :
                     w \in EtymologyWords, t \in EtymologyTypes}

Decompose ==
    /\ etym.state = "call"
    /\ etym' = [etym EXCEPT !.state = "done",
                            !.result = get_word_etymology(etym.word, etym.word_type)]
    /\ UNCHANGED <<store, pc, first_index, body, word_type, query, response, used>>

NextEtymology == Decompose

SpecEtymology == InitEtymology /\ [][NextEtymology]_vars

\* ------------------------------------------------------------- the claims
InFlight(p) == pc[p] \in {"fetched", "built"}

\* C1: two bulk imports can interleave: while one import is between reading
\* the largest id and inserting, another request can begin an import and read
\* the largest id of the rows inserted so far; and two imports that read the
\* same first_index and built batches have both given the id first_index to
\* their first entry.
C1_ImportsNotIsolated ==
    \A p \in Requests, q \in Requests :
        p /= q =>
          /\ (InFlight(p) /\ pc[q] = "idle") =>
                 ENABLED (/\ SerializeFetch(q, <<>>, "verb")
                          /\ \A r \in store : r.id < first_index'[q]
                          /\ \/ first_index'[q] = 1
                             \/ \E r \in store : first_index'[q] = r.id + 1)
          /\ ( /\ pc[p] = "built" /\ pc[q] = "built"
               /\ first_index[p] = first_index[q]
               /\ query[p].tuples /= <<>> /\ query[q].tuples /= <<>> ) =>
                 /\ query[p].tuples[1].id = first_index[p]
                 /\ query[q].tuples[1].id = first_index[p]

\* C1's case: two imports in flight hold batches that give one id to
\* different entries.
C1_Collision ==
    \E p \in Requests, q \in Requests :
        /\ p /= q /\ pc[p] = "built" /\ pc[q] = "built"
        /\ \E a \in QueryRows(query[p]), b \in QueryRows(query[q]) :
               a.id = b.id /\ a.word /= b.word

\* The step that ends request p's bulk import.
ImportEnds(p) == InFlight(p) /\ pc'[p] = "idle"

EqualsSigns(t) == {i \in 1..Len(t) : t[i] = "="}
WellFormed(t) ==
    /\ Cardinality(EqualsSigns(t)) = 1
    /\ \A i \in EqualsSigns(t) : 1 < i /\ i < Len(t)
Before(t) == SubSeq(t, 1, MaxOf(EqualsSigns(t)) - 1)
After(t) == SubSeq(t, MaxOf(EqualsSigns(t)) + 1, Len(t))
LargestId(rows) == IF rows = {} THEN 0 ELSE MaxOf(Ids(rows))

ExpectedBatch(b, wt, m) ==
    LET ts == split_whitespace(b)
    IN  {[id |-> m + n, word |-> to_lowercase(After(ts[n])),
          definition |-> to_lowercase(Before(ts[n])), type |-> wt] : n \in 1..Len(ts)}

\* C2: a bulk import of k well-formed tokens, run without interleaving
\* against a store whose largest id is m (0 for the empty store), inserts
\* exactly k entries, the n-th (from 0) with id m+1+n and the lower-cased
\* texts before and after "=" as definition and word.
C2_ImportInsertsBatch ==
    [][\A p \in Requests :
          (ImportEnds(p) /\ \A i \in 1..Len(split_whitespace(body[p])) :
                                 WellFormed(split_whitespace(body[p])[i]))
          => store' = store \cup ExpectedBatch(body[p], word_type[p], LargestId(store))]_vars

HasMalformed(b) ==
    \E i \in 1..Len(split_whitespace(b)) : EqualsSigns(split_whitespace(b)[i]) = {}

\* C3: a bulk import whose body holds a token without "=" ends with the
\* error result MalformedToken and leaves the store as it was.
C3_MalformedTokenError ==
    [][\A p \in Requests :
          (ImportEnds(p) /\ HasMalformed(body[p]))
          => (response'.kind = "MalformedToken" /\ store' = store)]_vars

\* C4: every Word of the store has a non-empty word, a non-empty definition
\* and a type that is one of noun, verb, amuini.
C4_WordsValid ==
    \A r \in store :
        r.word /= <<>> /\ r.definition /= <<>> /\ r.type \in {"noun", "verb", "amuini"}

\* C5: an id once assigned to a Word is never given to a Word created later.
C5_IdsNeverReused ==
    [][\A r \in store' \ store : r.id \notin used]_vars

AddExpected(wt, w, d) ==
    LET hasRn == \E i \in 1..(Len(w) - 1) : w[i] = "r" /\ w[i + 1] = "n"
        inserted(t) == \E r \in store' :
                          /\ r \notin store /\ store' = store \cup {r}
                          /\ r.type = t /\ r.word = w /\ r.definition = d
        failed(text) == response' = Text(text) /\ store' = store
    IN  IF wt = "" \/ w = <<>> \/ d = <<>> THEN failed("Missing fields")
        ELSE IF wt = "auto"
             THEN (IF hasRn THEN inserted("verb") ELSE failed("Invalid word type"))
             ELSE IF wt \in {"noun", "verb", "amuini"} THEN inserted(wt)
                  ELSE failed("Invalid word type")

\* C6: tavsa_add answers "Missing fields" when word_type, word or definition
\* is empty; else with word_type "auto" it resolves to verb when the word
\* contains "rn" and answers "Invalid word type" when not; else it answers
\* "Invalid word type" unless word_type is noun, verb or amuini. A failure
\* leaves the store unchanged; a success inserts exactly one Word, of the
\* resolved type.
C6_AddContract ==
    [][\A p \in Requests :
          (pc[p] = "idle" /\ (pc'[p] = "add_ok" \/ pc' = pc)) =>
              \A wt \in AddTypes, w \in AddWords, d \in AddDefinitions :
                  tavsa_add(p, wt, w, d) => AddExpected(wt, w, d)]_vars

\* C6's case: tavsa_add has refused a type and has inserted a verb.
C6_AddActed ==
    /\ response.kind = "Invalid word type"
    /\ \E r \in store : r.type = "verb" /\ r.definition = Encode(<<"x">>)

\* C7: deleting an id the store does not hold succeeds and leaves the store
\* unchanged; deleting an id it holds removes exactly the Word with that id,
\* and the listing of the store no longer holds the id.
C7_DeleteContract ==
    [][\A p \in Requests :
          (pc[p] = "idle" /\ pc'[p] \notin {"idle", "fetched"}) =>
              \A id \in DeleteIds :
                  tavsa_delete(p, id) =>
                      LET hit == {r \in store : to_string(r.id) = id}
                      IN  /\ pc'[p] = "delete_ok"
                          /\ Cardinality(hit) <= 1
                          /\ store' = store \ hit
                          /\ \A i \in 1..Len(GetWords(store')) :
                                 GetWords(store')[i][3] /= id]_vars

\* C7's case: a delete has run, an id is gone and another Word is still there.
C7_DeleteActed ==
    \E p \in Requests :
        /\ pc[p] = "delete_ok"
        /\ store /= {}
        /\ used \ Ids(store) /= {}

\* The byte index of the selected marker of a slot, as a set (empty: none).
Selected(w, first, second) ==
    LET f == {i \in 0..(Len(w) - 1) : w[i + 1] = first}
        g == {i \in 0..(Len(w) - 1) : w[i + 1] = second}
        h == IF f /= {} THEN f ELSE g
    IN  {i \in h : \A j \in h : i <= j}

HasRn(w) == \E i \in 1..(Len(w) - 1) : w[i] = "r" /\ w[i + 1] = "n"

\* The bytes of the character that starts at byte index i, and the two
\* characters that start there.
CharLen(w, i) == IF w[i + 1] = "C3" THEN 2 ELSE 1
TwoChars(w, i) == SubSeq(w, i + 1, i + 1 + CharLen(w, i + 1))

ExpectedToken(w, first, second) ==
    IF Selected(w, first, second) = {} THEN None
    ELSE Some(TwoChars(w, MaxOf(Selected(w, first, second))))

PrefixBeforeRn(w) ==
    LET at == {i \in 1..(Len(w) - 1) : w[i] = "r" /\ w[i + 1] = "n"}
    IN  SubSeq(w, 1, (CHOOSE i \in at : \A j \in at : i <= j) - 1)

MarkersFollowed(w) ==
    \A i \in Selected(w, "t", "d") \cup Selected(w, "k", "g") : i + 1 < Len(w)

DoneVerb == etym.state = "done" /\ etym.word_type = "verb"

\* C8: for type verb, get_word_etymology returns no decomposition when the
\* word has no "rn"; when it has, and every marker found is followed by a
\* character, the lexeme is the prefix before the first "rn", subject the two
\* characters from the first "t", else the first "d", else absent, ci the two
\* characters from the first "k", else the first "g", else absent, and
\* modifiers is empty.
C8_VerbDecomposition ==
    DoneVerb =>
        IF ~HasRn(etym.word) THEN etym.result.outcome = "None"
        ELSE MarkersFollowed(etym.word) =>
               /\ etym.result.outcome = "Some"
               /\ etym.result.value.lexema = PrefixBeforeRn(etym.word)
               /\ etym.result.value.subject = ExpectedToken(etym.word, "t", "d")
               /\ etym.result.value.ci = ExpectedToken(etym.word, "k", "g")
               /\ etym.result.value.modifiers = <<>>

\* C9: for a verb with "rn" whose selected subject or ci marker is the last
\* character of the word, decomposition ends with the error result
\* OutOfBounds.
C9_OutOfBoundsError ==
    (DoneVerb /\ HasRn(etym.word) /\ ~MarkersFollowed(etym.word))
        => etym.result.outcome = "OutOfBounds"

\* C10: for every type other than verb, decomposition of any word yields the
\* error result NotImplemented.
C10_NotImplementedError ==
    (etym.state = "done" /\ etym.word_type /= "verb")
        => etym.result.outcome = "NotImplemented"

=============================================================================
